---- MODULE Spec2Model ----
(***************************************************************************)
(* Request governance (rate limiting, audit, security headers, API keys)   *)
(* and the asynchronous job queue of main.py.                              *)
(*                                                                         *)
(* Strings the code slices or compares by prefix (API keys, URL paths) are *)
(* sequences of one-character strings, so that k[-4:], strip() and         *)
(* startswith() are computed rather than assumed.                          *)
(***************************************************************************)
EXTENDS Integers, Sequences, FiniteSets, TLC

VARIABLES
    now,          \* the clock read by time.time()
    BUCKET,       \* _BUCKET: identity -> <<start, count>>
    log,          \* the lines written through logger, in order
    inflight,     \* requests suspended in dispatch at await call_next
    nreq,         \* requests received so far
    ndone,        \* non-bypassed requests answered so far
    arr,          \* the last request received, with what dispatch did to it
    resp,         \* the last response sent
    adm,          \* identity -> the calls let through: time, and window start stored
    win,          \* identity -> window and rank of its last call (see Rank)
    JOB_Q,        \* the jobs put and not yet got by the worker
    JOB_RESULTS,  \* job id -> record written by the worker
    wpc,          \* the worker: "waiting" at JOB_Q.get(), or "running" a job
    cur,          \* the job the worker runs
    issued,       \* the job ids returned by job_analyze, in order
    fin,          \* the last job the worker finished
    polls,        \* the last call of job_status and its answer
    seen,         \* job id -> the first terminal answer job_status gave for it
    env,          \* API_KEYS_JSON, API_KEY and API_KEYS as the process found them
    store,        \* what _load_keys made of env
    auth          \* the last call of require_key or require_admin and its outcome

vars == <<now, BUCKET, log, inflight, nreq, ndone, arr, resp, adm, win,
          JOB_Q, JOB_RESULTS, wpc, cur, issued, fin, polls, seen,
          env, store, auth>>

govVars == <<BUCKET, log, inflight, nreq, ndone, arr, resp, adm, win>>
jobVars == <<JOB_Q, JOB_RESULTS, wpc, cur, issued, fin, polls, seen>>
keyVars == <<env, store, auth>>

---------------------------------------------------------------------------
(* Bounds of the model *)

MaxTime == 2
MaxReq == 3
MaxCalls == 4
MaxJobs == 3
MaxItems == 2
MaxClock == 3

(* Configuration read from the environment, scaled down *)
RATE_WINDOW_SEC == 2
RATE_MAX_CALLS == 2

---------------------------------------------------------------------------
(* Strings as character sequences *)

NoKey == <<>>
KeyAdmin == <<"a", "w", "x", "y", "z">>
KeyUser == <<"u", "w", "x", "y", "z">>
KeyBad == <<"b", "w", "x", "y", "z">>
KeyNone == <<"n", "o", "n", "e">>
KeyPadded == <<" ", "a", "w", "x", "y", "z", " ">>
KeyBlank == <<" ">>
KeyColon == <<"k", "a", ":", "b", "c">>
KeyShort == <<"b", "c">>

PathHealth == <<"/", "h", "e", "a", "l", "t", "h">>
PathRoot == <<"/">>
PathStatic == <<"/", "s", "t", "a", "t", "i", "c">>
PathReport == <<"/", "a", "p", "i", "/", "r", "e", "p", "o", "r", "t">>
PathAdmin == <<"/", "a", "p", "i", "/", "a", "d", "m", "i", "n", "/", "u", "s", "a", "g", "e">>
PathStaticFile == <<"/", "s", "t", "a", "t", "i", "c", "/", "a", ".", "j", "s">>

\* addresses, cut short
HostAddr == <<"h">>
ProxyAddr == <<"p">>
AddrColon == <<"h", ":", "a">>

Keys == {NoKey, KeyAdmin, KeyUser, KeyBad}
Paths == {PathHealth, PathReport, PathAdmin}
\* requests arrive without a proxy; Callers has those that name addresses
XFFs == {<<>>}
HandlerOutcomes == {"ok", "raise"}

(* str.strip(): drop leading and trailing blanks *)
RECURSIVE LStrip(_)
LStrip(s) == IF s # <<>> /\ Head(s) = " " THEN LStrip(Tail(s)) ELSE s

RECURSIVE RStrip(_)
RStrip(s) == IF s # <<>> /\ s[Len(s)] = " " THEN RStrip(SubSeq(s, 1, Len(s) - 1)) ELSE s

Strip(s) == RStrip(LStrip(s))

(* k[-4:] *)
Suffix4(k) == IF Len(k) <= 4 THEN k ELSE SubSeq(k, Len(k) - 3, Len(k))

(* str.startswith *)
StartsWith(s, p) == Len(s) >= Len(p) /\ SubSeq(s, 1, Len(p)) = p

---------------------------------------------------------------------------
(* Dictionaries *)

EmptyMap == [x \in {} |-> x]

Put(m, k, v) == [x \in DOMAIN m \cup {k} |-> IF x = k THEN v ELSE m[x]]

Get(m, k, default) == IF k \in DOMAIN m THEN m[k] ELSE default

---------------------------------------------------------------------------
(* API keys and roles *)

ALLOWED ==
    (KeyAdmin :> [role |-> "admin", name |-> "Founder"])
    @@ (KeyUser :> [role |-> "user", name |-> "client"])

NoClient == [key |-> <<>>, role |-> "", name |-> "", key_last4 |-> <<>>]

(* client_by_key over a loaded key store *)
ClientByKeyIn(allowed, k) ==
    IF k = <<>> THEN NoClient
    ELSE LET s == Strip(k)
         IN IF s \notin DOMAIN allowed THEN NoClient
            ELSE [key |-> s, role |-> allowed[s].role,
                  name |-> allowed[s].name, key_last4 |-> Suffix4(s)]

ClientByKey(k) == ClientByKeyIn(ALLOWED, k)

(* require_key comparing the header as sent, without strip() *)
RequireKeyInExact(allowed, supplied) ==
    IF supplied \notin DOMAIN allowed THEN [status |-> 401, client |-> NoClient]
    ELSE [status |-> 0,
          client |-> [key |-> supplied, role |-> allowed[supplied].role,
                      name |-> allowed[supplied].name,
                      key_last4 |-> Suffix4(supplied)]]

(* require_key: the client, or the status of the HTTPException it raises *)
RequireKeyIn(allowed, supplied) ==
    LET client == ClientByKeyIn(allowed, Strip(supplied))
    IN IF client = NoClient THEN [status |-> 401, client |-> NoClient]
       ELSE [status |-> 0, client |-> client]

(* require_key letting every non-empty key in *)
RequireKeyAnyKey(supplied) ==
    IF Strip(supplied) = <<>> THEN [status |-> 401, client |-> NoClient]
    ELSE [status |-> 0,
          client |-> [key |-> Strip(supplied), role |-> "user", name |-> "client",
                      key_last4 |-> Suffix4(Strip(supplied))]]

RequireKey(supplied) == RequireKeyIn(ALLOWED, supplied)

(* require_admin testing the role before the key *)
RequireAdminInRoleFirst(allowed, supplied) ==
    LET rk == RequireKeyIn(allowed, supplied)
    IN IF rk.client.role # "admin" THEN [status |-> 403, client |-> rk.client]
       ELSE rk

(* require_admin, with the require_key it depends on *)
RequireAdminIn(allowed, supplied) ==
    LET rk == RequireKeyIn(allowed, supplied)
    IN IF rk.status # 0 THEN rk
       ELSE IF rk.client.role # "admin" THEN [status |-> 403, client |-> rk.client]
       ELSE rk

RequireAdmin(supplied) == RequireAdminIn(ALLOWED, supplied)

(* str.lower() on the role names in use *)
Lower(r) ==
    CASE r = "Admin" -> "admin"
      [] r = "ADMIN" -> "admin"
      [] r = "User" -> "user"
      [] OTHER -> r

(* The environment.  API_KEYS_JSON is text that json.loads accepts or not;
   when it does, items is what the loop of _load_keys walks through, an item
   being an object (key, role and name, "" or <<>> where absent) or something
   item.get fails on.  API_KEYS is the text between its commas. *)
Item(key, role, name) == [bad |-> FALSE, key |-> key, role |-> role, name |-> name]
BadItem == [bad |-> TRUE, key |-> <<>>, role |-> "", name |-> ""]

Items ==
    {Item(KeyAdmin, "Admin", "Founder"), Item(KeyUser, "viewer", ""),
     Item(KeyBlank, "admin", "Nobody"), BadItem}

ItemLists == UNION {[1..n -> Items] : n \in 0..MaxItems}

JsonInputs ==
    {[parses |-> TRUE, items |-> l] : l \in ItemLists}
        \cup {[parses |-> FALSE, items |-> <<>>]}

SingleInputs == {<<>>, KeyUser}
MultInputs == {<<>>, <<KeyUser, KeyBad>>, <<KeyPadded, <<>>>>}

Envs == [json : JsonInputs, single : SingleInputs, mult : MultInputs]

DefaultEnv ==
    [json |-> [parses |-> TRUE, items |-> <<Item(KeyAdmin, "admin", "Founder")>>],
     single |-> KeyUser, mult |-> <<>>]

(* the loop over arr: an item without key is skipped, an item that raises
   ends the loop with out as it then is *)
RECURSIVE LoadItems(_, _)
LoadItems(items, out) ==
    IF items = <<>> THEN out
    ELSE IF Head(items).bad THEN out
    ELSE LET k == Strip(Head(items).key)
         IN IF k = <<>> THEN LoadItems(Tail(items), out)
            ELSE LoadItems(Tail(items),
                    Put(out, k,
                        [role |-> Lower(IF Head(items).role # "" THEN Head(items).role
                                        ELSE "user"),
                         name |-> IF Head(items).name # "" THEN Head(items).name
                                  ELSE "client"]))

(* the loop over API_KEYS *)
RECURSIVE LoadMult(_, _)
LoadMult(fields, out) ==
    IF fields = <<>> THEN out
    ELSE LET k == Strip(Head(fields))
         IN IF k = <<>> \/ k \in DOMAIN out THEN LoadMult(Tail(fields), out)
            ELSE LoadMult(Tail(fields), Put(out, k, [role |-> "user", name |-> "client"]))

(* _load_keys *)
LoadKeys(e) ==
    LET fromJson == IF e.json.parses THEN LoadItems(e.json.items, EmptyMap)
                    ELSE EmptyMap
        single == Strip(e.single)
        withSingle == IF single # <<>> /\ single \notin DOMAIN fromJson
                      THEN Put(fromJson, single, [role |-> "user", name |-> "client"])
                      ELSE fromJson
    IN LoadMult(e.mult, withSingle)

---------------------------------------------------------------------------
(* Responses and the middleware stack *)

BaseHeaders == {"content-type", "content-length"}

SecurityHeaderSet ==
    {"X-Content-Type-Options", "X-Frame-Options", "Referrer-Policy",
     "Permissions-Policy", "Strict-Transport-Security"}

Response(status) == [kind |-> "response", status |-> status, headers |-> BaseHeaders]
Raised == [kind |-> "raise", status |-> 0, headers |-> {}]

(* The router with its dependencies: the route's response, or an unhandled
   failure of the handler.  HTTPException is turned into a response by the
   ExceptionMiddleware next to the router. *)
Route(path, key, h) ==
    IF path = PathHealth \/ path = PathRoot \/ StartsWith(path, PathStatic)
    THEN IF h = "raise" THEN Raised ELSE Response(200)
    ELSE IF path = PathReport
    THEN IF RequireKey(key).status # 0 THEN Response(RequireKey(key).status)
         ELSE IF h = "raise" THEN Raised ELSE Response(200)
    ELSE IF path = PathAdmin
    THEN IF RequireAdmin(key).status # 0 THEN Response(RequireAdmin(key).status)
         ELSE IF h = "raise" THEN Raised ELSE Response(200)
    ELSE Response(404)

(* SecurityHeaders.dispatch: await call_next, then set the headers; a failure
   raised by call_next passes through untouched *)
SecurityHeaders(inner) ==
    IF inner.kind = "raise" THEN inner
    ELSE [inner EXCEPT !.headers = inner.headers \cup SecurityHeaderSet]

(* what RateLimitAndAudit's call_next yields *)
CallNext(path, key, h) == SecurityHeaders(Route(path, key, h))

(* on_error, run by the outermost ServerErrorMiddleware *)
OnError == Response(500)

---------------------------------------------------------------------------
(* Rate limiting *)

(* request.headers x-forwarded-for, else request.client.host *)
ClientIp(xff, host) ==
    IF xff # <<>> /\ Strip(Head(xff)) # <<>> THEN Strip(Head(xff))
    ELSE IF host # <<>> THEN host
    ELSE <<"?">>

Kl4(key) == IF key # <<>> THEN Suffix4(key) ELSE KeyNone

(* the identity rate limiting is meant to tell apart: the address and the
   last four characters of the key *)
Identity(ip, k) == <<ip, k>>

(* sha1 of the text "ip:k"; sha1 is taken as injective on the text *)
Rtoken(ip, k) == ip \o <<":">> \o k

(* the bypass test comparing whole paths only *)
IsBypassExact(path) == path \in {PathStatic, PathHealth, PathRoot}

IsBypass(path) ==
    StartsWith(path, PathStatic) \/ path \in {PathHealth, PathRoot}

(* RateCheck letting one call too many through *)
RateCheckOffByOne(bucket, tok, t) ==
    LET sc == Get(bucket, tok, <<t, 0>>)
        start == sc[1]
        count == sc[2]
    IN IF t - start >= RATE_WINDOW_SEC
       THEN [allowed |-> TRUE, bucket |-> Put(bucket, tok, <<t, 1>>)]
       ELSE IF count > RATE_MAX_CALLS
       THEN [allowed |-> FALSE, bucket |-> bucket]
       ELSE [allowed |-> TRUE, bucket |-> Put(bucket, tok, <<start, count + 1>>)]

(* RateCheck resetting the window only when its age exceeds the length *)
RateCheckLateReset(bucket, tok, t) ==
    LET sc == Get(bucket, tok, <<t, 0>>)
        start == sc[1]
        count == sc[2]
    IN IF t - start > RATE_WINDOW_SEC
       THEN [allowed |-> TRUE, bucket |-> Put(bucket, tok, <<t, 1>>)]
       ELSE IF count + 1 > RATE_MAX_CALLS
       THEN [allowed |-> FALSE, bucket |-> bucket]
       ELSE [allowed |-> TRUE, bucket |-> Put(bucket, tok, <<start, count + 1>>)]

(* RateCheck counting a call only when it opens a window *)
RateCheckNoCount(bucket, tok, t) ==
    LET sc == Get(bucket, tok, <<t, 0>>)
        start == sc[1]
        count == sc[2]
    IN IF t - start >= RATE_WINDOW_SEC
       THEN [allowed |-> TRUE, bucket |-> Put(bucket, tok, <<t, 1>>)]
       ELSE IF count + 1 > RATE_MAX_CALLS
       THEN [allowed |-> FALSE, bucket |-> bucket]
       ELSE [allowed |-> TRUE, bucket |-> bucket]

(* RateCheck counting the calls it denies as well *)
RateCheckCountDenied(bucket, tok, t) ==
    LET sc == Get(bucket, tok, <<t, 0>>)
        start == sc[1]
        count == sc[2]
    IN IF t - start >= RATE_WINDOW_SEC
       THEN [allowed |-> TRUE, bucket |-> Put(bucket, tok, <<t, 1>>)]
       ELSE IF count + 1 > RATE_MAX_CALLS
       THEN [allowed |-> FALSE, bucket |-> Put(bucket, tok, <<start, count + 1>>)]
       ELSE [allowed |-> TRUE, bucket |-> Put(bucket, tok, <<start, count + 1>>)]

(* the rate-limit block of dispatch: whether the call goes on, and the
   bucket it leaves *)
RateCheck(bucket, tok, t) ==
    LET sc == Get(bucket, tok, <<t, 0>>)
        start == sc[1]
        count == sc[2]
    IN IF t - start >= RATE_WINDOW_SEC
       THEN [allowed |-> TRUE, bucket |-> Put(bucket, tok, <<t, 1>>)]
       ELSE IF count + 1 > RATE_MAX_CALLS
       THEN [allowed |-> FALSE, bucket |-> bucket]
       ELSE [allowed |-> TRUE, bucket |-> Put(bucket, tok, <<start, count + 1>>)]

---------------------------------------------------------------------------
(* State after construction *)

NoJob == [n |-> 0, id |-> <<>>, kind |-> "", created |-> 0]
NoFin == [n |-> 0, id |-> <<>>, raised |-> FALSE, net |-> "none"]
NoPoll == [id |-> <<>>, pending |-> FALSE, issued |-> FALSE, result |-> [status |-> ""]]

NoArr ==
    [rid |-> 0, path |-> <<>>, key |-> <<>>, id |-> <<>>, tok |-> <<>>, time |-> 0,
     bypass |-> FALSE,
     denied |-> FALSE, idx |-> 0, afterElapsed |-> FALSE, prevIdx |-> 0,
     before |-> <<>>, stored |-> <<>>, others |-> TRUE]

NoAuth == [op |-> "", token |-> <<>>, status |-> 0, client |-> NoClient]

NoResp == [rid |-> 0, key |-> <<>>, bypass |-> FALSE, sat |-> FALSE, status |-> 0, headers |-> {}]

Idle ==
    /\ now = 0
    /\ BUCKET = EmptyMap
    /\ log = <<>>
    /\ inflight = {}
    /\ nreq = 0
    /\ ndone = 0
    /\ arr = NoArr
    /\ resp = NoResp
    /\ adm = EmptyMap
    /\ win = EmptyMap
    /\ JOB_Q = <<>>
    /\ JOB_RESULTS = EmptyMap
    /\ wpc = "waiting"
    /\ cur = NoJob
    /\ issued = <<>>
    /\ fin = NoFin
    /\ polls = NoPoll
    /\ seen = EmptyMap

Init ==
    /\ Idle
    /\ env = DefaultEnv
    /\ store = LoadKeys(env)
    /\ auth = NoAuth

(* time.time() moves on, as far as limit *)
Advance(limit) ==
    /\ now < limit
    /\ now' = now + 1
    /\ UNCHANGED <<govVars, jobVars, keyVars>>

Tick == Advance(MaxTime)

---------------------------------------------------------------------------
(* RateLimitAndAudit.dispatch *)

(* The window a call of an identity falls in, and the call's rank in it,
   counted beside the program without looking at BUCKET: a window is opened
   by the identity's first call and by its first call made RATE_WINDOW_SEC or
   more after the start of its window. *)
Rank(id, t) ==
    IF id \notin DOMAIN win
    THEN [gstart |-> t, idx |-> 1, afterElapsed |-> FALSE, prevIdx |-> 0]
    ELSE IF t - win[id].gstart < RATE_WINDOW_SEC
    THEN [gstart |-> win[id].gstart, idx |-> win[id].idx + 1, afterElapsed |-> FALSE,
          prevIdx |-> 0]
    ELSE [gstart |-> t, idx |-> 1, afterElapsed |-> TRUE, prevIdx |-> win[id].idx]

(* the identity's window is open and holds RATE_MAX_CALLS calls *)
Saturated(tok) ==
    /\ tok \in DOMAIN BUCKET
    /\ now - BUCKET[tok][1] < RATE_WINDOW_SEC
    /\ BUCKET[tok][2] >= RATE_MAX_CALLS

AuditEntry(r, status) ==
    [kind |-> "audit", method |-> r.method, path |-> r.path,
     status |-> status, ip |-> r.ip, kl4 |-> r.kl4]

Warn429Entry(r) ==
    [kind |-> "warn429", method |-> "", path |-> r.path,
     status |-> 429, ip |-> r.ip, kl4 |-> r.kl4]

UnhandledEntry ==
    [kind |-> "unhandled", method |-> "", path |-> <<>>,
     status |-> 0, ip |-> "", kl4 |-> <<>>]

(* dispatch up to its await of call_next: the bypass test, the identity, the
   rate-limit block and the 429 short-circuit *)
Arrive(path, key, xff) ==
    /\ LET rid == nreq + 1
           ip == ClientIp(xff, HostAddr)
           k == Strip(key)
           kl4 == Kl4(k)
           tok == Rtoken(ip, kl4)
           rc == RateCheck(BUCKET, tok, now)
           id == Identity(ip, kl4)
           rk == Rank(id, now)
           req == [rid |-> rid, method |-> "GET", path |-> path, key |-> key,
                   ip |-> ip, kl4 |-> kl4]
       IN IF IsBypass(path)
          THEN /\ inflight' = inflight \cup {req @@ [bypass |-> TRUE, sat |-> FALSE]}
               /\ arr' = [NoArr EXCEPT !.rid = rid, !.path = path, !.key = key,
                                       !.bypass = TRUE, !.time = now]
               /\ UNCHANGED <<BUCKET, log, resp, ndone, adm, win>>
          ELSE /\ BUCKET' = rc.bucket
               /\ win' = Put(win, id, [gstart |-> rk.gstart, idx |-> rk.idx])
               /\ arr' = [rid |-> rid, path |-> path, key |-> key, id |-> id, tok |-> tok,
                          time |-> now,
                          bypass |-> FALSE, denied |-> ~rc.allowed, idx |-> rk.idx,
                          afterElapsed |-> rk.afterElapsed, prevIdx |-> rk.prevIdx,
                          before |-> Get(BUCKET, tok, <<>>),
                          stored |-> Get(rc.bucket, tok, <<>>),
                          others |-> \A o \in DOMAIN BUCKET \ {tok} :
                                         o \in DOMAIN rc.bucket /\ rc.bucket[o] = BUCKET[o]]
               /\ IF rc.allowed
                  THEN /\ inflight' = inflight \cup
                              {req @@ [bypass |-> FALSE, sat |-> Saturated(tok)]}
                       /\ adm' = Put(adm, tok, Append(Get(adm, tok, <<>>),
                                       [t |-> now, start |-> Get(rc.bucket, tok, <<now, 0>>)[1]]))
                       /\ UNCHANGED <<log, resp, ndone>>
                  ELSE /\ log' = Append(log, Warn429Entry(req))
                       /\ resp' = [rid |-> rid, key |-> key, bypass |-> FALSE,
                                   sat |-> Saturated(tok), status |-> 429,
                                   headers |-> BaseHeaders]
                       /\ ndone' = ndone + 1
                       /\ UNCHANGED <<inflight, adm>>
    /\ nreq' = nreq + 1
    /\ UNCHANGED <<now, jobVars, keyVars>>

(* call_next returned a response: the audit line, then the response *)
ResumeReturn(r, h) ==
    /\ r \in inflight
    /\ LET out == CallNext(r.path, r.key, h)
       IN /\ out.kind = "response"
          /\ log' = IF r.bypass THEN log ELSE Append(log, AuditEntry(r, out.status))
          /\ resp' = [rid |-> r.rid, key |-> r.key, bypass |-> r.bypass, sat |-> r.sat,
                      status |-> out.status, headers |-> out.headers]
    /\ ndone' = IF r.bypass THEN ndone ELSE ndone + 1
    /\ inflight' = inflight \ {r}
    /\ UNCHANGED <<now, BUCKET, nreq, arr, adm, win, jobVars, keyVars>>

(* call_next raised: the failure leaves dispatch at the await and reaches
   on_error *)
ResumeRaise(r, h) ==
    /\ r \in inflight
    /\ LET out == CallNext(r.path, r.key, h)
       IN /\ out.kind = "raise"
          /\ log' = Append(log, UnhandledEntry)
          /\ resp' = [rid |-> r.rid, key |-> r.key, bypass |-> r.bypass, sat |-> r.sat,
                      status |-> OnError.status, headers |-> OnError.headers]
    /\ ndone' = IF r.bypass THEN ndone ELSE ndone + 1
    /\ inflight' = inflight \ {r}
    /\ UNCHANGED <<now, BUCKET, nreq, arr, adm, win, jobVars, keyVars>>

Next ==
    \/ Tick
    \/ /\ nreq < MaxReq
       /\ \E path \in Paths, key \in Keys, xff \in XFFs : Arrive(path, key, xff)
    \/ \E r \in inflight, h \in HandlerOutcomes : ResumeReturn(r, h)
    \/ \E r \in inflight, h \in HandlerOutcomes : ResumeRaise(r, h)

Spec == Init /\ [][Next]_vars

(* The rate limiter under calls of few identities on one route *)
RateKeys == {NoKey, KeyUser, KeyBad}

RateNext ==
    \/ Tick
    \/ /\ nreq < MaxCalls
       /\ \E key \in RateKeys : Arrive(PathReport, key, <<>>)
    \/ \E r \in inflight : ResumeReturn(r, "ok")

RateSpec == Init /\ [][RateNext]_vars

(* Two identities, over a time long enough for a window to be older than
   RATE_WINDOW_SEC when the identity's next call comes *)
WindowKeys == {KeyUser, KeyBad}

WindowNext ==
    \/ Advance(MaxClock)
    \/ /\ nreq < MaxCalls
       /\ \E key \in WindowKeys : Arrive(PathReport, key, <<>>)
    \/ \E r \in inflight : ResumeReturn(r, "ok")

WindowSpec == Init /\ [][WindowNext]_vars

(* Callers whose identities differ: one at the host's address with a key that
   has a colon among its last four characters, one that names an address with
   a colon in x-forwarded-for and sends a short key, and one at the host's
   address with a key of letters *)
Callers ==
    {[xff |-> <<>>, key |-> KeyColon],
     [xff |-> <<AddrColon, ProxyAddr>>, key |-> KeyShort],
     [xff |-> <<>>, key |-> KeyUser]}

IdentityNext ==
    \/ Tick
    \/ /\ nreq < MaxCalls
       /\ \E c \in Callers : Arrive(PathReport, c.key, c.xff)
    \/ \E r \in inflight : ResumeReturn(r, "ok")

IdentitySpec == Init /\ [][IdentityNext]_vars

(* Requests of one client for the paths dispatch lets by, with a governed
   route among them that fills the client's window *)
BypassPaths == {PathRoot, PathHealth, PathStaticFile, PathReport}

BypassNext ==
    \/ Tick
    \/ /\ nreq < MaxReq
       /\ \E path \in BypassPaths : Arrive(path, KeyUser, <<>>)
    \/ \E r \in inflight, h \in HandlerOutcomes : ResumeReturn(r, h)
    \/ \E r \in inflight, h \in HandlerOutcomes : ResumeRaise(r, h)

BypassSpec == Init /\ [][BypassNext]_vars

---------------------------------------------------------------------------
(* Key store loading and the two dependencies, on their own: the process
   starts in any of the environments, _load_keys runs once at import, and
   then requests present tokens. *)

Tokens == {NoKey, KeyAdmin, KeyUser, KeyBad, KeyPadded, KeyBlank}

AuthInit ==
    /\ Idle
    /\ env \in Envs
    /\ store = LoadKeys(env)
    /\ auth = NoAuth

(* a route that depends on require_key *)
Authenticate(token) ==
    /\ auth' = [op |-> "require_key", token |-> token] @@ RequireKeyIn(store, token)
    /\ UNCHANGED <<now, govVars, jobVars, env, store>>

(* admin_allowed and the other routes that depend on require_admin *)
AdminRequest(token) ==
    /\ auth' = [op |-> "require_admin", token |-> token] @@ RequireAdminIn(store, token)
    /\ UNCHANGED <<now, govVars, jobVars, env, store>>

AuthNext ==
    \/ \E token \in Tokens : Authenticate(token)
    \/ \E token \in Tokens : AdminRequest(token)

AuthSpec == AuthInit /\ [][AuthNext]_vars

---------------------------------------------------------------------------
(* Properties of request governance *)

BadToken(key) == ClientByKey(Strip(key)) = NoClient

(* the lines dispatch itself wrote: audit lines and 429 warnings *)
MiddlewareEntries == {i \in DOMAIN log : log[i].kind \in {"audit", "warn429"}}

(* C1: every non-bypassed request that was answered has exactly one entry
   written by the governance middleware, whatever its outcome.  A step answers
   at most one request and appends at most one line, so this is: at every
   moment the middleware's lines are as many as the non-bypassed requests
   answered. *)
C1_OneAuditPerRequest == Cardinality(MiddlewareEntries) = ndone

AdmittedIn(tok, lo, hi) ==
    Cardinality({i \in DOMAIN adm[tok] : lo <= adm[tok][i].t /\ adm[tok][i].t < hi})

(* C2 as stated: for one identity, any interval of RATE_WINDOW_SEC seconds,
   aligned with a stored window start or not, holds at most RATE_MAX_CALLS
   admitted calls. *)
C2_AnyInterval ==
    \A tok \in DOMAIN adm : \A t0 \in 0..MaxTime :
        AdmittedIn(tok, t0, t0 + RATE_WINDOW_SEC) <= RATE_MAX_CALLS

(* C2 amended: for one identity, the interval of RATE_WINDOW_SEC seconds that
   begins at a stored window start holds at most RATE_MAX_CALLS admitted
   calls. *)
C2_AlignedWindow ==
    \A tok \in DOMAIN adm : \A i \in DOMAIN adm[tok] :
        AdmittedIn(tok, adm[tok][i].start, adm[tok][i].start + RATE_WINDOW_SEC)
            <= RATE_MAX_CALLS

(* a burst across a window reset: more than RATE_MAX_CALLS admitted calls in
   an interval of RATE_WINDOW_SEC seconds *)
C2_Witness ==
    \E tok \in DOMAIN adm : \E t0 \in 0..MaxTime :
        AdmittedIn(tok, t0, t0 + RATE_WINDOW_SEC) > RATE_MAX_CALLS

(* C3 as stated: a non-bypassed request whose token is absent or unknown is
   answered 401, never 429. *)
C3_AuthBeforeRate ==
    (resp.rid # 0 /\ ~resp.bypass /\ BadToken(resp.key)) => resp.status = 401

(* C3 amended: the rate check is decided before authentication: a non-bypassed
   request to a key-protected route whose token is absent or unknown is
   answered 429 when the window of its identity was saturated on arrival, and
   401 otherwise. *)
C3_RateBeforeAuth ==
    (resp.rid # 0 /\ ~resp.bypass /\ BadToken(resp.key))
        => resp.status = (IF resp.sat THEN 429 ELSE 401)

C3_Witness ==
    resp.rid # 0 /\ ~resp.bypass /\ BadToken(resp.key) /\ resp.sat /\ resp.status = 429

(* C4 as stated: a non-bypassed request whose token is absent or unknown
   leaves BUCKET unchanged. *)
C4_BadTokenLeavesBucket ==
    (arr.rid # 0 /\ ~arr.bypass /\ BadToken(arr.key))
        => (arr.stored = arr.before /\ arr.others)

(* C4 amended: a non-bypassed request whose token is absent or unknown leaves
   BUCKET unchanged only when it is denied with 429; otherwise it changes the
   window stored for its own identity, and in both cases it leaves the window
   of every other identity unchanged. *)
C4_BadTokenCounted ==
    (arr.rid # 0 /\ ~arr.bypass /\ BadToken(arr.key))
        => /\ arr.others
           /\ arr.denied => arr.stored = arr.before
           /\ ~arr.denied => (arr.stored # <<>> /\ arr.stored # arr.before)

C4_Witness ==
    /\ arr.rid # 0 /\ ~arr.bypass /\ BadToken(arr.key)
    /\ ~arr.denied
    /\ arr.before # <<>>
    /\ arr.stored = <<arr.before[1], arr.before[2] + 1>>

RequiredHeaders ==
    {"X-Content-Type-Options", "X-Frame-Options", "Referrer-Policy",
     "Strict-Transport-Security"}

(* C9: every response sent, the 429 of the rate limiter and the 500 of an
   unhandled failure included, carries the security headers. *)
C9_HeadersOnEveryResponse == resp.rid # 0 => RequiredHeaders \subseteq resp.headers

(* C10: of the calls of one identity, the first RATE_MAX_CALLS made less than
   RATE_WINDOW_SEC seconds after the window's start are let through, the next
   one is denied with 429, and the first call made once the window has elapsed
   is let through and leaves the stored window (now, 1). *)
C10_WindowScenario ==
    (arr.rid # 0 /\ ~arr.bypass)
        => /\ arr.idx <= RATE_MAX_CALLS => ~arr.denied
           /\ arr.idx = RATE_MAX_CALLS + 1 => arr.denied
           /\ (arr.denied /\ resp.rid = arr.rid) => resp.status = 429
           /\ arr.afterElapsed => (~arr.denied /\ arr.stored = <<arr.time, 1>>)

(* the first call after a window that had seen RATE_MAX_CALLS + 1 calls *)
C10_Witness ==
    /\ arr.rid # 0 /\ ~arr.bypass
    /\ arr.afterElapsed
    /\ arr.prevIdx > RATE_MAX_CALLS
    /\ ~arr.denied
    /\ arr.stored = <<arr.time, 1>>

(* the calls of an identity admitted under the window start it stored *)
AdmittedUnder(tok, start) ==
    Cardinality({i \in DOMAIN adm[tok] : adm[tok][i].start = start})

(* the requests of an identity that are past the rate check and not yet
   answered *)
InFlightOf(tok) == {r \in inflight : ~r.bypass /\ Rtoken(r.ip, r.kl4) = tok}

(* C15: in every reachable state the count stored for an identity is at most
   RATE_MAX_CALLS, and at most RATE_MAX_CALLS calls were admitted under any
   one window start the identity has had, that is between two consecutive
   resets, whatever requests of the identity are in flight meanwhile. *)
C15_CountNeverExceedsMax ==
    /\ \A tok \in DOMAIN BUCKET :
           /\ BUCKET[tok][2] >= 1
           /\ BUCKET[tok][2] <= RATE_MAX_CALLS
    /\ \A tok \in DOMAIN adm : \A i \in DOMAIN adm[tok] :
           AdmittedUnder(tok, adm[tok][i].start) <= RATE_MAX_CALLS

(* two requests of one identity are in flight, they filled its window, and a
   third call of the identity arriving meanwhile was denied *)
C15_Witness ==
    /\ arr.denied
    /\ Cardinality(InFlightOf(arr.tok)) >= 2
    /\ BUCKET[arr.tok][2] = RATE_MAX_CALLS
    /\ AdmittedUnder(arr.tok, BUCKET[arr.tok][1]) = RATE_MAX_CALLS

(* C16: a call the rate check denies leaves the stored window of its
   identity, start and count, as it found it, and the windows of the other
   identities too; so denied calls, however many, neither change the count
   nor put off the reset. *)
C16_DeniedLeavesWindow ==
    arr.denied =>
        /\ arr.before # <<>>
        /\ arr.stored = arr.before
        /\ arr.others

(* the second call denied in one window: the call of rank RATE_MAX_CALLS + 2
   found the window as the first denial had left it *)
C16_Witness ==
    /\ arr.denied
    /\ arr.idx = RATE_MAX_CALLS + 2
    /\ arr.stored = <<arr.stored[1], RATE_MAX_CALLS>>

(* the call opened a window: it went on and left (now, 1) *)
OpenedWindow == ~arr.denied /\ arr.stored = <<arr.time, 1>>

(* the call was held against the window it found: it went on and left the
   window's start with the count raised by one, or it was denied *)
CountedInWindow ==
    \/ arr.denied
    \/ arr.stored = <<arr.before[1], arr.before[2] + 1>>

(* C17, as stated: a call opens a new window (count 1, allowed) exactly when
   its identity has no window or the window's age is strictly greater than
   RATE_WINDOW_SEC; a call made when the age is exactly RATE_WINDOW_SEC is
   counted against the existing window, and denied if that window is full. *)
C17_OpensWhenOlderThanWindow ==
    (arr.rid # 0 /\ ~arr.bypass) =>
        /\ OpenedWindow <=>
               (arr.before = <<>> \/ arr.time - arr.before[1] > RATE_WINDOW_SEC)
        /\ (arr.before # <<>> /\ arr.time - arr.before[1] = RATE_WINDOW_SEC) =>
               /\ CountedInWindow
               /\ arr.before[2] >= RATE_MAX_CALLS => arr.denied

(* C17, amended: a call opens a new window (count 1, allowed) exactly when
   its identity has no window or the window's age is RATE_WINDOW_SEC or more;
   a call made when the age is exactly RATE_WINDOW_SEC opens a new window and
   is let through even if the old window was full, and a call made at a
   lesser age is counted against the existing window. *)
C17_OpensAtWindowAge ==
    (arr.rid # 0 /\ ~arr.bypass) =>
        /\ OpenedWindow <=>
               (arr.before = <<>> \/ arr.time - arr.before[1] >= RATE_WINDOW_SEC)
        /\ (arr.before # <<>> /\ arr.time - arr.before[1] < RATE_WINDOW_SEC) =>
               /\ CountedInWindow
               /\ arr.denied <=> arr.before[2] >= RATE_MAX_CALLS

(* a call made exactly RATE_WINDOW_SEC after the start of a full window was
   let through and opened a window *)
C17_Witness ==
    /\ arr.rid # 0 /\ ~arr.bypass
    /\ arr.before # <<>>
    /\ arr.before[2] = RATE_MAX_CALLS
    /\ arr.time - arr.before[1] = RATE_WINDOW_SEC
    /\ OpenedWindow

(* a path dispatch is to let by: one that starts with /static, or /health
   or / itself *)
BypassPath(path) ==
    \/ Len(path) >= 7 /\ SubSeq(path, 1, 7) = <<"/", "s", "t", "a", "t", "i", "c">>
    \/ path = <<"/", "h", "e", "a", "l", "t", "h">>
    \/ path = <<"/">>

(* the lines a step adds to the log *)
Added == {log'[i] : i \in (Len(log) + 1)..Len(log')}

(* C18: a request to a bypass path skips governance.  Its arrival leaves the
   rate limiter's windows and the log as they were and answers nothing, the
   request going on to the handler; and the step that answers it leaves the
   windows as they were, adds no audit line and no 429 warning, and the
   answer is not a 429. *)
C18_BypassSkipsGovernance ==
    [][/\ (arr'.rid # arr.rid /\ BypassPath(arr'.path)) =>
              /\ BUCKET' = BUCKET
              /\ log' = log
              /\ resp' = resp
              /\ \E r \in inflight' \ inflight : r.rid = arr'.rid
       /\ \A r \in inflight \ inflight' :
              BypassPath(r.path) =>
                  /\ BUCKET' = BUCKET
                  /\ resp'.rid = r.rid
                  /\ resp'.status # 429
                  /\ \A e \in Added : e.kind \notin {"audit", "warn429"}]_vars

(* a request for a file under /static was answered while the client's window
   was full, and the window and the middleware's lines are those of the
   governed requests alone *)
C18_Witness ==
    /\ resp.rid # 0
    /\ resp.rid = arr.rid
    /\ arr.path = PathStaticFile
    /\ resp.status = 200
    /\ \E tok \in DOMAIN BUCKET : BUCKET[tok][2] = RATE_MAX_CALLS
    /\ Cardinality(MiddlewareEntries) = RATE_MAX_CALLS

(* the window stored for an identity, <<>> when there is none *)
WindowOf(bucket, id) == Get(bucket, Rtoken(id[1], id[2]), <<>>)

(* C21: the windows of distinct identities are independent.  A governed
   request of identity A leaves the window stored for every other identity
   that has called as it was, and a call is denied only when its own identity
   has made more than RATE_MAX_CALLS calls in its window, so never on account
   of the calls of another identity. *)
C21_IdentitiesIndependent ==
    [][(arr'.rid # arr.rid /\ ~arr'.bypass) =>
          /\ \A b \in DOMAIN win \ {arr'.id} :
                 WindowOf(BUCKET', b) = WindowOf(BUCKET, b)
          /\ arr'.denied => arr'.idx > RATE_MAX_CALLS]_vars

---------------------------------------------------------------------------
(* Jobs *)

(* the first 16 hex digits of sha1 of "time:key_last4", taken as injective on
   the pair *)
JobId(t, kl4) == <<t, kl4>>

NoSuchId == <<MaxTime + 1, KeyNone>>

JobIds == {JobId(t, Suffix4(k)) : t \in 0..MaxTime, k \in DOMAIN ALLOWED} \cup {NoSuchId}

Totals == [inc |-> 100, exp |-> 40, net |-> 60]

DbOutcomes == {"ok", "raise"}
NetOutcomes == {"text", "fail"}

(* ask_ollama handing the failure back as its text *)
AskOllamaErrorText(net) == IF net = "text" THEN "ok" ELSE "error"

(* ask_ollama: the model's text, or None (here "") when requests is missing,
   the call fails or times out, or no answer comes back *)
AskOllama(net) == IF net = "text" THEN "ok" ELSE ""

(* whether the worker got as far as calling ask_ollama, and how that went *)
Asked(job, db, net) == IF job.kind = "analyze" /\ db = "ok" THEN net ELSE "none"

(* a job is in the queue or in the worker's hands *)
Pending(id) ==
    \/ \E i \in DOMAIN JOB_Q : JOB_Q[i].id = id
    \/ wpc = "running" /\ cur.id = id

(* job_analyze, after require_key let the caller in; it runs on the event
   loop, which the worker holds while it runs a job.  The field n numbers the
   jobs in the order they were put; the code's job holds id and kind only. *)
Enqueue(key) ==
    /\ RequireKey(key).status = 0
    /\ wpc = "waiting"
    /\ LET client == RequireKey(key).client
           jid == JobId(now, client.key_last4)
       IN /\ JOB_Q' = Append(JOB_Q, [n |-> Len(issued) + 1, id |-> jid, kind |-> "analyze"])
          /\ issued' = Append(issued, jid)
    /\ UNCHANGED <<now, govVars, keyVars, JOB_RESULTS, wpc, cur, fin, polls, seen>>

(* job_status answering queued for an id it has no record of *)
JobStatusDefaultQueued(job_id) == Get(JOB_RESULTS, job_id, [status |-> "queued"])

(* job_status, after require_key let the caller in *)
JobStatus(job_id) == Get(JOB_RESULTS, job_id, [status |-> "unknown"])

Poll(job_id) ==
    /\ polls' = [id |-> job_id, pending |-> Pending(job_id),
                 issued |-> \E i \in DOMAIN issued : issued[i] = job_id,
                 result |-> JobStatus(job_id)]
    /\ seen' = IF JobStatus(job_id).status \in {"done", "error"} /\ job_id \notin DOMAIN seen
               THEN Put(seen, job_id, JobStatus(job_id))
               ELSE seen
    /\ UNCHANGED <<now, govVars, keyVars, JOB_Q, JOB_RESULTS, wpc, cur, issued, fin>>

(* worker taking the job put last *)
WorkerGetLifo ==
    /\ wpc = "waiting"
    /\ JOB_Q # <<>>
    /\ cur' = [n |-> JOB_Q[Len(JOB_Q)].n, id |-> JOB_Q[Len(JOB_Q)].id,
               kind |-> JOB_Q[Len(JOB_Q)].kind, created |-> now]
    /\ JOB_Q' = SubSeq(JOB_Q, 1, Len(JOB_Q) - 1)
    /\ wpc' = "running"
    /\ UNCHANGED <<now, govVars, keyVars, JOB_RESULTS, issued, fin, polls, seen>>

(* worker: job = await JOB_Q.get(), and the reading of the clock *)
WorkerGet ==
    /\ wpc = "waiting"
    /\ JOB_Q # <<>>
    /\ cur' = [n |-> Head(JOB_Q).n, id |-> Head(JOB_Q).id, kind |-> Head(JOB_Q).kind,
               created |-> now]
    /\ JOB_Q' = Tail(JOB_Q)
    /\ wpc' = "running"
    /\ UNCHANGED <<now, govVars, keyVars, JOB_RESULTS, issued, fin, polls, seen>>

(* WorkerResult without the except clause: a failing job keeps no terminal
   record *)
WorkerResultNoExcept(job, db, net) ==
    IF job.kind = "analyze"
    THEN IF db = "raise"
         THEN [status |-> "running"]
         ELSE [status |-> "done", created |-> job.created,
               result |-> [summary |-> Totals,
                           analysis |-> IF AskOllama(net) # "" THEN AskOllama(net)
                                        ELSE "(offline) analysis"]]
    ELSE [status |-> "error", error |-> "unknown job"]

(* the record the try block of worker leaves for a job *)
WorkerResult(job, db, net) ==
    IF job.kind = "analyze"
    THEN IF db = "raise"
         THEN [status |-> "error", error |-> "database failure"]
         ELSE [status |-> "done", created |-> job.created,
               result |-> [summary |-> Totals,
                           analysis |-> IF AskOllama(net) # "" THEN AskOllama(net)
                                        ELSE "(offline) analysis"]]
    ELSE [status |-> "error", error |-> "unknown job"]

(* worker: the try block and task_done, back to JOB_Q.get() *)
WorkerFinish(db, net) ==
    /\ wpc = "running"
    /\ JOB_RESULTS' = Put(JOB_RESULTS, cur.id, WorkerResult(cur, db, net))
    /\ fin' = [n |-> cur.n, id |-> cur.id, raised |-> cur.kind = "analyze" /\ db = "raise",
               net |-> Asked(cur, db, net)]
    /\ wpc' = "waiting"
    /\ cur' = NoJob
    /\ UNCHANGED <<now, govVars, keyVars, JOB_Q, issued, polls, seen>>

JobNext ==
    \/ Tick
    \/ /\ Len(issued) < MaxJobs
       /\ \E key \in DOMAIN ALLOWED : Enqueue(key)
    \/ \E job_id \in JobIds : Poll(job_id)
    \/ WorkerGet
    \/ \E db \in DbOutcomes, net \in NetOutcomes : WorkerFinish(db, net)

JobSpec == Init /\ [][JobNext]_vars

(* The worker and its producers alone: job_status changes neither the queue
   nor the records, so the worker's progress does not depend on it.  The worker
   task is scheduled, and the collaborator returns or times out. *)
WorkNext ==
    \/ Tick
    \/ /\ Len(issued) < MaxJobs
       /\ \E key \in DOMAIN ALLOWED : Enqueue(key)
    \/ WorkerGet
    \/ \E db \in DbOutcomes, net \in NetOutcomes : WorkerFinish(db, net)

FairWorkerSpec ==
    /\ Init
    /\ [][WorkNext]_vars
    /\ WF_vars(WorkerGet)
    /\ WF_vars(\E db \in DbOutcomes, net \in NetOutcomes : WorkerFinish(db, net))

---------------------------------------------------------------------------
(* Properties of authentication and authorisation *)

(* C11, as stated: require_key raises 401 for an absent token and for every
   token that is not a key of the key store, and for every token that is a
   key it returns exactly the role and name stored for it. *)
C11_UnknownTokenRejected ==
    auth.op = "require_key" =>
        /\ auth.token \notin DOMAIN store => auth.status = 401
        /\ auth.token \in DOMAIN store =>
               /\ auth.status = 0
               /\ auth.client.role = store[auth.token].role
               /\ auth.client.name = store[auth.token].name

(* C11, amended: the token counts as require_key receives it after strip().
   An absent token and every token that, stripped of surrounding blanks, is
   not a key of the key store gets 401; every token that, stripped, is a key
   gets exactly the role and name stored for that key. *)
C11_StrippedTokenDecides ==
    auth.op = "require_key" =>
        /\ (auth.token = NoKey \/ Strip(auth.token) \notin DOMAIN store) =>
               /\ auth.status = 401
               /\ auth.client = NoClient
        /\ Strip(auth.token) \in DOMAIN store =>
               /\ auth.status = 0
               /\ auth.client.key = Strip(auth.token)
               /\ auth.client.role = store[Strip(auth.token)].role
               /\ auth.client.name = store[Strip(auth.token)].name

(* a padded key got in with the role of the key inside the padding, and in
   the same store an unknown token was turned away *)
C11_Witness ==
    /\ auth.op = "require_key"
    /\ auth.token = KeyPadded
    /\ auth.token \notin DOMAIN store
    /\ auth.status = 0
    /\ auth.client.role = "admin"
    /\ KeyBad \notin DOMAIN store

(* C12, as stated: on an admin-gated route an absent or unknown token gets
   401, a known token whose role is not admin gets 403, and a known admin
   token is let through, a token being known when it is a key of the key
   store. *)
C12_AdminGateByToken ==
    auth.op = "require_admin" =>
        /\ auth.token \notin DOMAIN store => auth.status = 401
        /\ (auth.token \in DOMAIN store /\ store[auth.token].role # "admin") =>
               auth.status = 403
        /\ (auth.token \in DOMAIN store /\ store[auth.token].role = "admin") =>
               auth.status = 0

(* C12, amended: the same three outcomes, a token being known when, stripped
   of surrounding blanks, it is a key of the key store.  The failure to
   authenticate comes first: no token that is absent or unknown gets 403,
   and no known token gets 401. *)
C12_AdminGateByStrippedToken ==
    auth.op = "require_admin" =>
        LET k == Strip(auth.token)
        IN /\ k \notin DOMAIN store => auth.status = 401
           /\ (k \in DOMAIN store /\ store[k].role # "admin") => auth.status = 403
           /\ (k \in DOMAIN store /\ store[k].role = "admin") =>
                  /\ auth.status = 0
                  /\ auth.client.role = "admin"

(* a known token without the admin role was refused with 403 by a store
   that holds an admin key and does not hold the unknown token *)
C12_Witness ==
    /\ auth.op = "require_admin"
    /\ auth.token = KeyUser
    /\ auth.status = 403
    /\ KeyAdmin \in DOMAIN store
    /\ store[KeyAdmin].role = "admin"
    /\ KeyBad \notin DOMAIN store

---------------------------------------------------------------------------
(* Properties of key store loading *)

(* API_KEYS_JSON is malformed: json.loads fails, or an item is not an object *)
Malformed(json) == ~json.parses \/ \E i \in DOMAIN json.items : json.items[i].bad

(* the keys API_KEY and API_KEYS name *)
SimpleKeys(e) ==
    ({Strip(e.single)} \cup {Strip(e.mult[i]) : i \in DOMAIN e.mult}) \ {<<>>}

UserEntry == [role |-> "user", name |-> "client"]

(* what a well-formed item says about its key *)
ItemEntry(item) ==
    [role |-> Lower(IF item.role # "" THEN item.role ELSE "user"),
     name |-> IF item.name # "" THEN item.name ELSE "client"]

(* C20: loading merges the three sources.  A key of the structured list has
   a role and name the structured list gives it, whatever API_KEY and
   API_KEYS say; the keys of API_KEY and API_KEYS that the structured list
   does not have are loaded as user; and a malformed structured input
   contributes no entry at all, so that the store then holds exactly the keys
   of API_KEY and API_KEYS, each as user. *)
C20_MergePrecedence ==
    /\ \A k \in SimpleKeys(env) : k \in DOMAIN store
    /\ Malformed(env.json) =>
           /\ DOMAIN store = SimpleKeys(env)
           /\ \A k \in DOMAIN store : store[k] = UserEntry
    /\ ~Malformed(env.json) =>
           /\ \A i \in DOMAIN env.json.items :
                  Strip(env.json.items[i].key) # <<>> =>
                      /\ Strip(env.json.items[i].key) \in DOMAIN store
                      /\ \E j \in DOMAIN env.json.items :
                             /\ Strip(env.json.items[j].key) = Strip(env.json.items[i].key)
                             /\ store[Strip(env.json.items[i].key)] = ItemEntry(env.json.items[j])
           /\ \A k \in DOMAIN store :
                  (\A i \in DOMAIN env.json.items : Strip(env.json.items[i].key) # k) =>
                      /\ k \in SimpleKeys(env)
                      /\ store[k] = UserEntry

(* the well-formed half of C20 alone *)
C20_WellFormedMerge == Malformed(env.json) \/ C20_MergePrecedence

(* the half of C20 for input json.loads refuses *)
C20_UnparsedIgnored ==
    ~env.json.parses =>
        /\ DOMAIN store = SimpleKeys(env)
        /\ \A k \in DOMAIN store : store[k] = UserEntry

---------------------------------------------------------------------------
(* Properties of the job queue *)

Terminal == {"done", "error"}

(* the n-th job put has left the queue and the worker's hands *)
Finished(n) ==
    /\ n <= Len(issued)
    /\ \A i \in DOMAIN JOB_Q : JOB_Q[i].n # n
    /\ ~(wpc = "running" /\ cur.n = n)

(* C5: job_status of an id whose job was put and is not yet finished by the
   worker answers queued or running. *)
C5_PendingIsQueuedOrRunning ==
    polls.pending => polls.result.status \in {"queued", "running"}

(* C6: under fair scheduling of the worker, every job put is eventually
   finished with a terminal record under its id, and a job whose execution
   raised leaves the record error. *)
C6_EventuallyTerminal ==
    /\ \A n \in 1..MaxJobs :
           (Len(issued) >= n) ~>
               (/\ Finished(n)
                /\ issued[n] \in DOMAIN JOB_RESULTS
                /\ JOB_RESULTS[issued[n]].status \in Terminal)
    /\ [](fin.raised =>
              (fin.id \in DOMAIN JOB_RESULTS /\ JOB_RESULTS[fin.id].status = "error"))

(* a job whose execution raised has been finished *)
C6_Witness ==
    /\ fin.raised
    /\ Finished(fin.n)
    /\ JOB_RESULTS[fin.id].status = "error"

(* C7: once job_status has answered a terminal status for an id, every later
   job_status of that id gives the same answer. *)
C7_TerminalIsStable == polls.id \in DOMAIN seen => polls.result = seen[polls.id]

(* C8: the ids returned by job_analyze are pairwise different. *)
C8_FreshIds ==
    \A i \in DOMAIN issued : \A j \in DOMAIN issued : i # j => issued[i] # issued[j]

(* C13, as stated: when the text-generation collaborator times out or fails
   while the worker executes a job, the job's terminal record has status
   error with a non-empty error message, and the job is no longer running. *)
C13_CollaboratorFailureIsError ==
    fin.net = "fail" =>
        /\ fin.id \in DOMAIN JOB_RESULTS
        /\ JOB_RESULTS[fin.id].status = "error"
        /\ JOB_RESULTS[fin.id].error # ""
        /\ cur.n # fin.n

(* C13, amended: when the collaborator times out or fails while the worker
   executes a job, the job's terminal record has status done and carries the
   fallback text as its analysis, and the job is no longer running. *)
C13_CollaboratorFailureIsFallback ==
    fin.net = "fail" =>
        /\ fin.id \in DOMAIN JOB_RESULTS
        /\ JOB_RESULTS[fin.id].status = "done"
        /\ JOB_RESULTS[fin.id].result.analysis = "(offline) analysis"
        /\ cur.n # fin.n

(* a job whose call of the collaborator failed has been finished *)
C13_Witness ==
    /\ fin.n > 0
    /\ fin.net = "fail"
    /\ fin.id \in DOMAIN JOB_RESULTS
    /\ wpc = "waiting"

(* C14: job_status answers unknown for every id that no job_analyze has
   returned so far, and it is read-only: a call of it leaves the job queue
   and the job records as they were, so it removes and alters no record. *)
C14_PollUnknownAndReadOnly ==
    [][(polls' # polls \/ seen' # seen) =>
          /\ JOB_Q' = JOB_Q
          /\ JOB_RESULTS' = JOB_RESULTS
          /\ ~polls'.issued => polls'.result = [status |-> "unknown"]]_vars

(* an id never issued was asked for while a job was queued and another had
   its record, and the answer was unknown *)
C14_Witness ==
    /\ polls.id = NoSuchId
    /\ ~polls.issued
    /\ polls.result.status = "unknown"
    /\ JOB_Q # <<>>
    /\ JOB_RESULTS # EmptyMap

(* C19: the worker takes the jobs in the order they were put and runs one at
   a time.  While the n-th job put is running, the job finished last is the
   one put just before it, every job put earlier has its terminal record,
   and every job still queued was put later; and the queue holds the jobs in
   the order they were put. *)
C19_StrictFifo ==
    /\ wpc = "running" =>
           /\ fin.n = cur.n - 1
           /\ \A m \in 1..(cur.n - 1) :
                  /\ issued[m] \in DOMAIN JOB_RESULTS
                  /\ JOB_RESULTS[issued[m]].status \in Terminal
           /\ \A i \in DOMAIN JOB_Q : JOB_Q[i].n > cur.n
    /\ wpc = "waiting" => \A i \in DOMAIN JOB_Q : JOB_Q[i].n > fin.n
    /\ \A i, j \in DOMAIN JOB_Q : i < j => JOB_Q[i].n < JOB_Q[j].n

(* the second job is running, the first has its record and the third waits *)
C19_Witness ==
    /\ wpc = "running"
    /\ cur.n = 2
    /\ fin.n = 1
    /\ Len(JOB_Q) = 1
    /\ JOB_Q[1].n = 3

====
